---- MODULE Spec2Model ----
(***************************************************************************)
(* Segment-synchronised audio playback of the "ears" frontend.            *)
(*                                                                         *)
(*   AudioPlayer.svelte : transcript player (audio, isPlaying,            *)
(*                        currentTime, duration, activeSegmentIndex)      *)
(*   Learn.svelte       : listening-quiz clip player (listeningAudio,     *)
(*                        isPlaying, currentListeningIndex)               *)
(*                                                                         *)
(* The HTMLAudioElement objects the two components create are modelled    *)
(* as records in `handles`; the media events the host has queued for      *)
(* their listeners are in `events`.  Segment indices are 0-based as in    *)
(* the source, -1 is "no active segment".                                 *)
(***************************************************************************)
EXTENDS Integers, Sequences, FiniteSets, TLC

\* ---------------------------------------------------------------- bounds
MaxT == 2          \* playback positions and timestamps range over 0..MaxT
MaxStamp == 3      \* timestamps and positions of the pure lookup range over 0..MaxStamp
MaxSegs == 3       \* longest segment list drawn for the pure lookup
MaxEvents == 2     \* capacity of the queue of undelivered media events
MaxReq == 2        \* seekTo invocations per behaviour
MaxClip == 2       \* clip handles created per behaviour
MaxFetch == 2      \* getListeningQuiz requests in flight at once

NULL == -1         \* a null timestamp (TranscriptSegment.start/end)
NaN == -2          \* audio.duration before metadata is known
NotRun == -2       \* the lookup has not been called yet
NoHandle == 0      \* the null audio reference
NoUrl == 0         \* an empty audioUrl prop

Time == 0 .. MaxT
Stamp == (0 .. MaxStamp) \cup {NULL}
Urls == {1, 2}

\* TranscriptSegment {start, end} (text and language play no part here); a
\* segment that has both stamps does not end before it starts
Segment ==
    {seg \in [start : Stamp, end : Stamp] :
        seg.start = NULL \/ seg.end = NULL \/ seg.start <= seg.end}

Seg(s, e) == [start |-> s, end |-> e]

\* ------------------------------------------------- SegmentIndex (lookup)

\* plausible slip: the interval closed at its end
Matches_openStart(seg, t) ==
    /\ seg.start # NULL
    /\ seg.end # NULL
    /\ t > seg.start
    /\ t < seg.end

Matches_closedEnd(seg, t) ==
    /\ seg.start # NULL
    /\ seg.end # NULL
    /\ t >= seg.start
    /\ t <= seg.end

\* plausible slip: the null guards left out, so that the comparisons see a
\* null stamp as 0
Matches_noNullGuard(seg, t) ==
    /\ t >= (IF seg.start = NULL THEN 0 ELSE seg.start)
    /\ t < (IF seg.end = NULL THEN 0 ELSE seg.end)

\* segments.findIndex(seg => seg.start !== null && seg.end !== null &&
\*                           currentTime >= seg.start && currentTime < seg.end)
Matches(seg, t) ==
    /\ seg.start # NULL
    /\ seg.end # NULL
    /\ t >= seg.start
    /\ t < seg.end

\* plausible slip: the interval open at its start
findActive_openStart(segs, t) ==
    LET hits == {k \in 1 .. Len(segs) :
                    /\ segs[k].start # NULL
                    /\ segs[k].end # NULL
                    /\ t > segs[k].start
                    /\ t < segs[k].end}
    IN  IF hits = {} THEN -1
        ELSE (CHOOSE k \in hits : \A j \in hits : k <= j) - 1

\* Array.prototype.findIndex: the first matching position, 0-based, or -1
findActive(segs, t) ==
    LET hits == {k \in 1 .. Len(segs) : Matches(segs[k], t)}
    IN  IF hits = {} THEN -1
        ELSE (CHOOSE k \in hits : \A j \in hits : k <= j) - 1

\* -------------------------------------------------------------- state
VARIABLES
    handles,              \* every HTMLAudioElement created so far (1-based id)
    events,               \* media events queued by the host, oldest first
    audioUrl,             \* AudioPlayer prop
    segments,             \* AudioPlayer prop
    audio,                \* AudioPlayer: let audio (NoHandle = null)
    isPlaying,            \* AudioPlayer: let isPlaying
    currentTime,          \* AudioPlayer: let currentTime
    duration,             \* AudioPlayer: let duration
    activeSegmentIndex,   \* AudioPlayer: let activeSegmentIndex
    destroyed,            \* AudioPlayer: onDestroy has run
    pending,              \* AudioPlayer: seekTo invocations inside the readiness wait
    requests,             \* AudioPlayer: the seek/play requests so far, oldest first
    listeningSegments,    \* Learn: let listeningSegments
    currentListeningIndex,\* Learn: let currentListeningIndex
    listeningAudio,       \* Learn: let listeningAudio (NoHandle = null)
    learnIsPlaying,       \* Learn: let isPlaying
    sessionComplete,      \* Learn: let sessionComplete
    mode,                 \* Learn: let mode
    loading,              \* Learn: let loading
    fetching,             \* Learn: getListeningQuiz requests in flight
    loads,                \* Learn: playListeningSegment invocations awaiting canplay
    plays,                \* Learn: handles with a resume awaiting the promise of play()
    lastOp,               \* the handler or listener that ran last, <<name, arg>>
    effects,              \* what that run did, in program order
    fSegs, fT, fIdx       \* the pure lookup: input list, position, result

hostVars == <<handles, events>>
playerVars == <<audioUrl, segments, audio, isPlaying, currentTime, duration,
                activeSegmentIndex, destroyed, pending, requests>>
learnVars == <<listeningSegments, currentListeningIndex, listeningAudio,
               learnIsPlaying, sessionComplete, mode, loading, fetching, loads,
               plays>>
findVars == <<fSegs, fT, fIdx>>
vars == <<handles, events, audioUrl, segments, audio, isPlaying, currentTime,
          duration, activeSegmentIndex, destroyed, pending, requests,
          listeningSegments, currentListeningIndex, listeningAudio,
          learnIsPlaying, sessionComplete, mode, loading, fetching, loads, plays,
          lastOp, effects,
          fSegs, fT, fIdx>>

\* ------------------------------------------------ the host media element
\* The host state is passed around as [hs |-> handles, ev |-> events].

NoWin == [start |-> 0, end |-> 0, url |-> NoUrl]

\* media duration of every recording
Dur(url) == MaxT

\* new Audio(url): paused, nothing loaded, no error, position 0, no play()
\* promise pending
hNew(H, url, win) ==
    [hs |-> Append(H.hs, [url |-> url, paused |-> TRUE, ready |-> FALSE,
                          err |-> FALSE, pos |-> 0, req |-> 0, win |-> win,
                          pp |-> {}]),
     ev |-> H.ev]

\* timeupdate events are coalesced: listeners read the position when they run
PushTimeUpdate(ev, h) ==
    IF Len(ev) > 0 /\ ev[Len(ev)] = <<h, "timeupdate">> THEN ev
    ELSE Append(ev, <<h, "timeupdate">>)

\* element.pause(): sets paused, queues 'pause' if it was not paused
hPause(H, h) ==
    IF H.hs[h].paused THEN H
    ELSE [hs |-> [H.hs EXCEPT ![h].paused = TRUE],
          ev |-> Append(H.ev, <<h, "pause">>)]

\* element.play(): clears paused, queues 'play'; an ended element restarts at 0
hPlay(H, h) ==
    IF ~H.hs[h].paused THEN H
    ELSE [hs |-> [H.hs EXCEPT ![h].paused = FALSE,
                              ![h].pos = IF H.hs[h].ready /\ @ >= Dur(H.hs[h].url)
                                         THEN 0 ELSE @],
          ev |-> Append(H.ev, <<h, "play">>)]

\* The promise element.play() has just returned to call path `by` stays
\* pending while the media of h is still loading; on a loaded handle it is
\* fulfilled as playback starts.
hAwait(H, h, by) ==
    IF H.hs[h].ready \/ H.hs[h].err \/ H.hs[h].url = NoUrl THEN H
    ELSE [hs |-> [H.hs EXCEPT ![h].pp = @ \cup {by}], ev |-> H.ev]

\* element.currentTime = t on behalf of seekTo invocation gen (0: not a seekTo)
\* The host keeps a position inside loaded media; before the metadata is
\* known it holds the assigned value as it is until loading ends.
hClamp(hd, t) ==
    IF hd.ready /\ t > Dur(hd.url) THEN Dur(hd.url) ELSE t

hSeek(H, h, t, gen) ==
    [hs |-> [H.hs EXCEPT ![h].pos = hClamp(H.hs[h], t), ![h].req = gen],
     ev |-> IF H.hs[h].ready THEN PushTimeUpdate(H.ev, h) ELSE H.ev]

\* the last reference to h is given up.  Nothing reads the position of such a
\* handle again; it is cleared.
hDrop(H, h) == [hs |-> [H.hs EXCEPT ![h].pos = 0], ev |-> H.ev]

Host == [hs |-> handles, ev |-> events]

SetHost(H) ==
    /\ Len(H.ev) <= MaxEvents
    /\ handles' = H.hs
    /\ events' = H.ev

\* ------------------------------------------------------ AudioPlayer.svelte

\* the segment lists the transcript player is mounted with
PlayerSegLists ==
    { <<Seg(0, 1), Seg(1, 2), Seg(NULL, NULL)>>,
      <<>> }

NoFx == <<>>

\* initAudio(): pause and drop the old handle, create one for audioUrl.
\* Result: the host, the new value of audio and the calls made.
initAudio(H, a) ==
    LET H1 == IF a # NoHandle THEN hPause(H, a) ELSE H
        fx1 == IF a # NoHandle THEN << <<"pause", a, 0>> >> ELSE NoFx
        H2 == hNew(H1, audioUrl, NoWin)
        h == Len(H2.hs)
    IN  [H |-> H2, audio |-> h, fx |-> fx1 \o << <<"new", h, audioUrl>> >>]

\* plausible slip: the pointer is written and scrolled to on every update
updateActiveSegment_always(t) ==
    IF Len(segments) = 0
    THEN [idx |-> activeSegmentIndex, fx |-> NoFx]
    ELSE LET idx == findActive(segments, t)
         IN  [idx |-> idx,
              fx |-> << <<"setActive", idx, 0>> >> \o
                     (IF idx >= 0 THEN << <<"scroll", idx, 0>> >> ELSE NoFx)]

\* a lookup that keeps the old pointer when no segment contains t
updateActiveSegment_keepOnMiss(t) ==
    IF Len(segments) = 0
    THEN [idx |-> activeSegmentIndex, fx |-> NoFx]
    ELSE LET idx == findActive(segments, t)
         IN  IF idx # activeSegmentIndex /\ idx >= 0
             THEN [idx |-> idx,
                   fx |-> << <<"setActive", idx, 0>>, <<"scroll", idx, 0>> >>]
             ELSE [idx |-> activeSegmentIndex, fx |-> NoFx]

\* updateActiveSegment() for the position t just copied into currentTime.
\* Result: the new pointer and the scroll request, if any.
updateActiveSegment(t) ==
    IF Len(segments) = 0
    THEN [idx |-> activeSegmentIndex, fx |-> NoFx]
    ELSE LET idx == findActive(segments, t)
         IN  IF idx # activeSegmentIndex
             THEN [idx |-> idx,
                   fx |-> << <<"setActive", idx, 0>> >> \o
                          (IF idx >= 0 THEN << <<"scroll", idx, 0>> >> ELSE NoFx)]
             ELSE [idx |-> activeSegmentIndex, fx |-> NoFx]

\* The part of seekTo(time) after the readiness wait: lines 106-119.
\* a is the value of audio when the continuation runs.
seekApply(H, a, time, gen) ==
    IF a = NoHandle
    THEN [H |-> H, fx |-> NoFx]
    ELSE IF time = NaN
    THEN [H |-> H, fx |-> << <<"caught", a, 0>> >>]
    ELSE [H |-> hAwait(hPlay(hSeek(H, a, time, gen), a), a, "seekTo"),
          fx |-> << <<"seek", a, time>>, <<"play", a, 0>> >>]

\* seekTo(time) up to its first await.  With no handle it calls initAudio and
\* enters the readiness wait; otherwise it seeks and plays at once.
seekTo(H, a, time, gen) ==
    IF a = NoHandle
    THEN LET r == initAudio(H, a)
         IN  [H |-> r.H, audio |-> r.audio, fx |-> r.fx,
              wait |-> {[gen |-> gen, time |-> time]}]
    ELSE LET r == seekApply(H, a, time, gen)
         IN  [H |-> r.H, audio |-> a, fx |-> r.fx, wait |-> {}]

\* plausible slip: an untimed click rewinds ("playing from beginning")
untimedClick_fromStart(H, a) ==
    LET r == IF a = NoHandle THEN initAudio(H, a)
             ELSE [H |-> H, audio |-> a, fx |-> NoFx]
    IN  [H |-> hPlay(hSeek(r.H, r.audio, 0, 0), r.audio), audio |-> r.audio,
         fx |-> r.fx \o << <<"seek", r.audio, 0>>, <<"play", r.audio, 0>> >>,
         wait |-> {}]

\* lines 132-135: if (!audio) initAudio(); audio?.play()
untimedClick(H, a) ==
    LET r == IF a = NoHandle THEN initAudio(H, a)
             ELSE [H |-> H, audio |-> a, fx |-> NoFx]
    IN  [H |-> hAwait(hPlay(r.H, r.audio), r.audio, "untimed"), audio |-> r.audio,
         fx |-> r.fx \o << <<"play", r.audio, 0>> >>,
         wait |-> {}]

\* The handlers are called on a mounted player and, to see what a call does
\* after onDestroy, on a destroyed one until a call has brought a handle back;
\* what that handle then does (readiness wait, listeners, playback) goes on.
CallsTaken == ~destroyed \/ audio = NoHandle

\* plausible slip: the highlight is set after the seek has been issued
clickOrder_late(i, fx) == fx \o << <<"setActive", i, 0>> >>

\* line 126 runs before lines 128-136
clickOrder(i, fx) == << <<"setActive", i, 0>> >> \o fx

\* handleSegmentClick(segment, index)
HandleSegmentClick(i) ==
    /\ CallsTaken
    /\ i \in 0 .. Len(segments) - 1
    /\ Len(requests) < MaxReq
    /\ LET seg == segments[i + 1]
           r == IF seg.start # NULL
                THEN seekTo(Host, audio, seg.start, Len(requests) + 1)
                ELSE untimedClick(Host, audio)
       IN  /\ SetHost(r.H)
           /\ audio' = r.audio
           /\ pending' = pending \cup r.wait
           /\ effects' = clickOrder(i, r.fx)
    /\ activeSegmentIndex' = i
    /\ requests' = Append(requests, [src |-> i, time |-> segments[i + 1].start])
    /\ lastOp' = <<"handleSegmentClick", i>>
    /\ UNCHANGED <<audioUrl, segments, isPlaying, currentTime, duration, destroyed>>
    /\ UNCHANGED <<learnVars, findVars>>

\* togglePlay()
TogglePlay_clearsPointer ==
    /\ CallsTaken
    /\ IF audio = NoHandle
       THEN /\ UNCHANGED hostVars
            /\ effects' = NoFx
       ELSE IF isPlaying
       THEN /\ SetHost(hPause(Host, audio))
            /\ effects' = << <<"pause", audio, 0>> >>
       ELSE /\ SetHost(hAwait(hPlay(Host, audio), audio, "togglePlay"))
            /\ effects' = << <<"play", audio, 0>> >>
    /\ activeSegmentIndex' = -1
    /\ lastOp' = <<"togglePlay", 0>>
    /\ UNCHANGED <<audioUrl, segments, audio, isPlaying, currentTime, duration,
                   destroyed, pending, requests>>
    /\ UNCHANGED <<learnVars, findVars>>

TogglePlay ==
    /\ CallsTaken
    /\ IF audio = NoHandle
       THEN /\ UNCHANGED hostVars
            /\ effects' = NoFx
       ELSE IF isPlaying
       THEN /\ SetHost(hPause(Host, audio))
            /\ effects' = << <<"pause", audio, 0>> >>
       ELSE /\ SetHost(hAwait(hPlay(Host, audio), audio, "togglePlay"))
            /\ effects' = << <<"play", audio, 0>> >>
    /\ lastOp' = <<"togglePlay", 0>>
    /\ UNCHANGED playerVars
    /\ UNCHANGED <<learnVars, findVars>>

\* percent * duration for a click at k/2 of the progress bar
ProgressTime(k) == IF duration = NaN THEN NaN ELSE (k * duration) \div 2

\* handleProgressClick(event)
HandleProgressClick(k) ==
    /\ CallsTaken
    /\ k \in 0 .. 2
    /\ IF audio = NoHandle
       THEN /\ UNCHANGED <<hostVars, requests>>
            /\ effects' = NoFx
       ELSE /\ Len(requests) < MaxReq
            /\ LET r == seekTo(Host, audio, ProgressTime(k), Len(requests) + 1)
               IN  /\ SetHost(r.H)
                   /\ effects' = r.fx
            /\ requests' = Append(requests, [src |-> -1, time |-> ProgressTime(k)])
    /\ lastOp' = <<"handleProgressClick", k>>
    /\ UNCHANGED <<audioUrl, segments, audio, isPlaying, currentTime, duration,
                   activeSegmentIndex, destroyed, pending>>
    /\ UNCHANGED <<learnVars, findVars>>

\* what the 50 ms poll of seekTo tests
PollReady == audio # NoHandle /\ handles[audio].ready

\* seekTo's wait is resolved by the poll; the invocation goes on
SeekWaitReady(w) ==
    /\ w \in pending
    /\ PollReady
    /\ LET r == seekApply(Host, audio, w.time, w.gen)
       IN  /\ SetHost(r.H)
           /\ effects' = r.fx
    /\ pending' = pending \ {w}
    /\ lastOp' = <<"seekTo.ready", w.gen>>
    /\ UNCHANGED <<audioUrl, segments, audio, isPlaying, currentTime, duration,
                   activeSegmentIndex, destroyed, requests>>
    /\ UNCHANGED <<learnVars, findVars>>

\* a timer that is cleared together with the handle
SeekWaitTimeout_cleared(w) ==
    /\ w \in pending
    /\ ~PollReady
    /\ audio # NoHandle
    /\ LET r == seekApply(Host, audio, w.time, w.gen)
       IN  /\ SetHost(r.H)
           /\ effects' = r.fx
    /\ pending' = pending \ {w}
    /\ lastOp' = <<"seekTo.timeout", w.gen>>
    /\ UNCHANGED <<audioUrl, segments, audio, isPlaying, currentTime, duration,
                   activeSegmentIndex, destroyed, requests>>
    /\ UNCHANGED <<learnVars, findVars>>

\* seekTo's wait is resolved by the 3 s timer; the invocation goes on
SeekWaitTimeout(w) ==
    /\ w \in pending
    /\ ~PollReady
    /\ LET r == seekApply(Host, audio, w.time, w.gen)
       IN  /\ SetHost(r.H)
           /\ effects' = r.fx
    /\ pending' = pending \ {w}
    /\ lastOp' = <<"seekTo.timeout", w.gen>>
    /\ UNCHANGED <<audioUrl, segments, audio, isPlaying, currentTime, duration,
                   activeSegmentIndex, destroyed, requests>>
    /\ UNCHANGED <<learnVars, findVars>>

\* onDestroy(() => { if (audio) { audio.pause(); audio = null; } })
OnDestroy ==
    /\ ~destroyed
    /\ destroyed' = TRUE
    /\ IF audio # NoHandle
       THEN /\ SetHost(hDrop(hPause(Host, audio), audio))
            /\ effects' = << <<"pause", audio, 0>>, <<"drop", audio, 0>> >>
       ELSE /\ UNCHANGED hostVars
            /\ effects' = NoFx
    /\ audio' = NoHandle
    /\ lastOp' = <<"onDestroy", 0>>
    /\ UNCHANGED <<audioUrl, segments, isPlaying, currentTime, duration,
                   activeSegmentIndex, pending, requests>>
    /\ UNCHANGED <<learnVars, findVars>>

\* the parent passes another audioUrl; $: if (audioUrl && !audio) initAudio()
AudioUrlChanged(u) ==
    /\ ~destroyed
    /\ u \in Urls
    /\ u # audioUrl
    /\ audioUrl' = u
    /\ IF u # NoUrl /\ audio = NoHandle
       THEN LET H2 == hNew(Host, u, NoWin)
            IN  /\ SetHost(H2)
                /\ audio' = Len(H2.hs)
                /\ effects' = << <<"new", Len(H2.hs), u>> >>
       ELSE /\ UNCHANGED <<hostVars, audio>>
            /\ effects' = NoFx
    /\ lastOp' = <<"audioUrl", u>>
    /\ UNCHANGED <<segments, isPlaying, currentTime, duration,
                   activeSegmentIndex, destroyed, pending, requests>>
    /\ UNCHANGED <<learnVars, findVars>>

\* the host reaches HAVE_METADATA on handle h and the loadedmetadata listener
\* runs: duration = audio!.duration
LoadedMetadata(h) ==
    /\ h \in 1 .. Len(handles)
    /\ handles[h].url # NoUrl
    /\ ~handles[h].ready
    /\ ~handles[h].err
    /\ handles' = [handles EXCEPT ![h].ready = TRUE, ![h].pp = {},
                                  ![h].pos = IF @ > Dur(handles[h].url)
                                             THEN Dur(handles[h].url) ELSE @]
    /\ events' = events
    /\ IF audio = NoHandle
       THEN /\ duration' = duration
            /\ effects' = << <<"throw", h, 0>> >>
       ELSE /\ duration' = IF audio = h \/ handles[audio].ready
                           THEN Dur(handles[audio].url) ELSE NaN
            /\ effects' = NoFx
    /\ lastOp' = <<"loadedmetadata", h>>
    /\ UNCHANGED <<audioUrl, segments, audio, isPlaying, currentTime,
                   activeSegmentIndex, destroyed, pending, requests>>
    /\ UNCHANGED <<learnVars, findVars>>

\* plausible slip: the ended listener leaves the highlight where it was
onEnded_keepPointer == [isPlaying |-> FALSE, idx |-> activeSegmentIndex]

\* the ended listener: isPlaying = false; activeSegmentIndex = -1
onEnded == [isPlaying |-> FALSE, idx |-> -1]

\* What becomes of a play() promise that the host rejects with AbortError,
\* by the call path that holds it: seekTo awaits it inside try/catch and
\* reports it with console.error (lines 115-118); togglePlay (line 78) and the
\* untimed click (line 135) drop the promise, nothing handles the rejection.
onAbort(h, by) ==
    IF by = "seekTo"
    THEN << <<"caught", h, 0>>, <<"reported", h, 0>> >>
    ELSE << <<"unhandled", h, 0>> >>

\* the rejections that follow the pause event of handle h
Aborted(h) ==
    (IF "togglePlay" \in handles[h].pp THEN onAbort(h, "togglePlay") ELSE NoFx) \o
    (IF "untimed" \in handles[h].pp THEN onAbort(h, "untimed") ELSE NoFx) \o
    (IF "seekTo" \in handles[h].pp THEN onAbort(h, "seekTo") ELSE NoFx)

\* the listeners initAudio registers for play, pause, timeupdate, ended and
\* error; after the pause listener the host rejects the play() promises that
\* were still pending on the handle
PlayerListener ==
    /\ events # <<>>
    /\ events' = Tail(events)
    /\ handles' = IF Head(events)[2] = "pause"
                  THEN [handles EXCEPT ![Head(events)[1]].pp = {}]
                  ELSE handles
    /\ LET h == Head(events)[1]
           type == Head(events)[2]
       IN  /\ lastOp' = <<type, h>>
           /\ CASE type = "play" ->
                     /\ isPlaying' = TRUE
                     /\ effects' = NoFx
                     /\ UNCHANGED <<currentTime, activeSegmentIndex>>
                [] type = "pause" ->
                     /\ isPlaying' = FALSE
                     /\ effects' = Aborted(h)
                     /\ UNCHANGED <<currentTime, activeSegmentIndex>>
                [] type = "ended" ->
                     /\ isPlaying' = onEnded.isPlaying
                     /\ activeSegmentIndex' = onEnded.idx
                     /\ effects' = << <<"setActive", onEnded.idx, 0>> >>
                     /\ UNCHANGED currentTime
                [] type = "error" ->
                     /\ effects' = << <<"log", h, 0>> >>
                     /\ UNCHANGED <<isPlaying, currentTime, activeSegmentIndex>>
                [] type = "timeupdate" ->
                     IF audio = NoHandle
                     THEN /\ effects' = << <<"throw", h, 0>> >>
                          /\ UNCHANGED <<isPlaying, currentTime, activeSegmentIndex>>
                     ELSE LET u == updateActiveSegment(handles[audio].pos)
                          IN  /\ currentTime' = handles[audio].pos
                              /\ activeSegmentIndex' = u.idx
                              /\ effects' = u.fx
                              /\ isPlaying' = isPlaying
    /\ UNCHANGED <<audioUrl, segments, audio, duration, destroyed, pending, requests>>
    /\ UNCHANGED <<learnVars, findVars>>

\* ------------------------------------------------- playback in the host

\* the host fails to load the media of handle h: the element keeps its error
\* and an error event is queued
MediaError(h) ==
    /\ h \in 1 .. Len(handles)
    /\ handles[h].url # NoUrl
    /\ ~handles[h].ready
    /\ ~handles[h].err
    /\ SetHost([hs |-> [handles EXCEPT ![h].err = TRUE, ![h].pp = {}],
                ev |-> Append(events, <<h, "error">>)])
    /\ lastOp' = <<"mediaError", h>>
    /\ effects' = NoFx
    /\ UNCHANGED <<playerVars, learnVars, findVars>>

\* playback of handle h advances by one position-update tick
Advance(h) ==
    /\ h \in 1 .. Len(handles)
    /\ ~handles[h].paused
    /\ handles[h].ready
    /\ handles[h].pos < Dur(handles[h].url)
    /\ \A k \in 1 .. Len(events) : events[k] # <<h, "timeupdate">>
    /\ SetHost([hs |-> [handles EXCEPT ![h].pos = @ + 1],
                ev |-> PushTimeUpdate(events, h)])
    /\ lastOp' = <<"advance", h>>
    /\ effects' = NoFx
    /\ UNCHANGED <<playerVars, learnVars, findVars>>

\* playback of handle h reaches the end of the media
End(h) ==
    /\ h \in 1 .. Len(handles)
    /\ ~handles[h].paused
    /\ handles[h].ready
    /\ handles[h].pos >= Dur(handles[h].url)
    /\ SetHost([hs |-> [handles EXCEPT ![h].paused = TRUE],
                ev |-> events \o << <<h, "pause">>, <<h, "ended">> >>])
    /\ lastOp' = <<"end", h>>
    /\ effects' = NoFx
    /\ UNCHANGED <<playerVars, learnVars, findVars>>

\* ------------------------------------------------- the transcript player

IdleLearn ==
    /\ listeningSegments = <<>>
    /\ currentListeningIndex = 0
    /\ listeningAudio = NoHandle
    /\ learnIsPlaying = FALSE
    /\ sessionComplete = FALSE
    /\ mode = "select"
    /\ loading = TRUE
    /\ fetching = 0
    /\ loads = {}
    /\ plays = {}

IdleFind ==
    /\ fSegs = <<>>
    /\ fT = 0
    /\ fIdx = NotRun

IdlePlayer ==
    /\ audioUrl = NoUrl
    /\ segments = <<>>
    /\ audio = NoHandle
    /\ isPlaying = FALSE
    /\ currentTime = 0
    /\ duration = 0
    /\ activeSegmentIndex = -1
    /\ destroyed = FALSE
    /\ pending = {}
    /\ requests = <<>>

\* a mounted AudioPlayer: the declarations of lines 12-16, then the reactive
\* statement of line 19 has run once
Init ==
    /\ audioUrl \in {NoUrl, 1}
    /\ segments \in PlayerSegLists
    /\ handles = IF audioUrl # NoUrl
                 THEN hNew([hs |-> <<>>, ev |-> <<>>], audioUrl, NoWin).hs
                 ELSE <<>>
    /\ events = <<>>
    /\ audio = IF audioUrl # NoUrl THEN 1 ELSE NoHandle
    /\ isPlaying = FALSE
    /\ currentTime = 0
    /\ duration = 0
    /\ activeSegmentIndex = -1
    /\ destroyed = FALSE
    /\ pending = {}
    /\ requests = <<>>
    /\ lastOp = <<"mount", 0>>
    /\ effects = NoFx
    /\ IdleLearn
    /\ IdleFind

Next ==
    \/ \E i \in 0 .. 2 : HandleSegmentClick(i)
    \/ TogglePlay
    \/ \E k \in 0 .. 2 : HandleProgressClick(k)
    \/ \E w \in pending : SeekWaitReady(w)
    \/ \E w \in pending : SeekWaitTimeout(w)
    \/ OnDestroy
    \/ \E u \in Urls : AudioUrlChanged(u)
    \/ \E h \in 1 .. Len(handles) : LoadedMetadata(h)
    \/ PlayerListener
    \/ \E h \in 1 .. Len(handles) : Advance(h)
    \/ \E h \in 1 .. Len(handles) : End(h)

Spec == Init /\ [][Next]_vars

\* a transcript whose last segment starts after the end of the media
LateSegs == <<Seg(0, 1), Seg(MaxT + 1, NULL)>>

\* a mounted AudioPlayer over such a transcript
InitLate ==
    /\ audioUrl \in {NoUrl, 1}
    /\ segments = LateSegs
    /\ handles = IF audioUrl # NoUrl
                 THEN hNew([hs |-> <<>>, ev |-> <<>>], audioUrl, NoWin).hs
                 ELSE <<>>
    /\ events = <<>>
    /\ audio = IF audioUrl # NoUrl THEN 1 ELSE NoHandle
    /\ isPlaying = FALSE
    /\ currentTime = 0
    /\ duration = 0
    /\ activeSegmentIndex = -1
    /\ destroyed = FALSE
    /\ pending = {}
    /\ requests = <<>>
    /\ lastOp = <<"mount", 0>>
    /\ effects = NoFx
    /\ IdleLearn
    /\ IdleFind

SpecLate == InitLate /\ [][Next]_vars

\* One seekTo invocation leaves its readiness wait: the 50 ms poll saw the
\* metadata, or the 3 s timer fired.
SeekWaitOver == \E w \in pending : SeekWaitReady(w) \/ SeekWaitTimeout(w)

\* The transcript player under the scheduling the page gives it: the event
\* loop delivers every queued media event, and the timers seekTo starts at
\* lines 91-101 run.  Loading, clicks and teardown are under no obligation.
Fairness == WF_vars(PlayerListener) /\ SF_vars(SeekWaitOver)

\* The steps that start, hold or end a readiness wait, or change what the
\* wait looks at: clicks (the only callers of seekTo with audio null),
\* teardown, a new URL, loading, and event delivery.  Progress-bar seeks
\* return at line 140 when audio is null and playback progress never reads
\* or writes the wait, so they are left to Spec.
NextLive ==
    \/ \E i \in 0 .. 2 : HandleSegmentClick(i)
    \/ TogglePlay
    \/ \E w \in pending : SeekWaitReady(w)
    \/ \E w \in pending : SeekWaitTimeout(w)
    \/ OnDestroy
    \/ \E u \in Urls : AudioUrlChanged(u)
    \/ \E h \in 1 .. Len(handles) : LoadedMetadata(h)
    \/ PlayerListener

SpecLive == Init /\ [][NextLive]_vars /\ Fairness

\* the transcript player over media that may fail to load
NextErr ==
    \/ Next
    \/ \E h \in 1 .. Len(handles) : MediaError(h)

SpecErr == Init /\ [][NextErr]_vars

\* ------------------------------------------------- the lookup on its own

SegLists == UNION {[1 .. n -> Segment] : n \in 0 .. MaxSegs}

InitFind ==
    /\ fSegs \in SegLists
    /\ fT \in 0 .. MaxStamp
    /\ fIdx = NotRun
    /\ IdlePlayer
    /\ IdleLearn
    /\ handles = <<>>
    /\ events = <<>>
    /\ lastOp = <<"mount", 0>>
    /\ effects = NoFx

\* a position update at fT over the list fSegs
Lookup ==
    /\ fIdx = NotRun
    /\ fIdx' = findActive(fSegs, fT)
    /\ UNCHANGED <<fSegs, fT, hostVars, playerVars, learnVars, lastOp, effects>>

NextFind == Lookup

SpecFind == InitFind /\ [][NextFind]_vars

Timed(seg) == seg.start # NULL /\ seg.end # NULL

\* the precondition of the data model: of any two timed segments the earlier
\* one ends no later than the later one starts
SortedNonOverlapping(segs) ==
    \A i, j \in 1 .. Len(segs) :
        (i < j /\ Timed(segs[i]) /\ Timed(segs[j])) => segs[i].end <= segs[j].start

Contains(seg, t) == Timed(seg) /\ seg.start <= t /\ t < seg.end

\* C1: on a sorted, non-overlapping list the lookup at t returns the index of
\* the one segment with start <= t < end, and -1 when no segment contains t
C1_FindActiveUnique ==
    (fIdx # NotRun /\ SortedNonOverlapping(fSegs)) =>
        /\ (fIdx = -1) <=> (\A k \in 1 .. Len(fSegs) : ~Contains(fSegs[k], fT))
        /\ fIdx # -1 =>
              /\ fIdx + 1 \in 1 .. Len(fSegs)
              /\ Contains(fSegs[fIdx + 1], fT)
              /\ \A k \in 1 .. Len(fSegs) : Contains(fSegs[k], fT) => k = fIdx + 1

\* the scenario of the spec, on the grid: [0,1) [1,2), looked up inside the
\* second segment's first instant
C1_Witness ==
    /\ fSegs = <<Seg(0, 1), Seg(1, 2)>>
    /\ fT = 1
    /\ fIdx = 1

\* C2 as stated: the lookup at a segment's start is that segment, at its end
\* the next segment, or -1 after the last one
C2_Original ==
    (fIdx # NotRun /\ SortedNonOverlapping(fSegs)
       /\ \A k \in 1 .. Len(fSegs) : Timed(fSegs[k]) /\ fSegs[k].start < fSegs[k].end) =>
        \A i \in 1 .. Len(fSegs) :
            /\ fT = fSegs[i].start => fIdx = i - 1
            /\ fT = fSegs[i].end => fIdx = IF i = Len(fSegs) THEN -1 ELSE i

\* the segment after i continues exactly where i ends
Contiguous(segs, i) ==
    /\ i < Len(segs)
    /\ Timed(segs[i + 1])
    /\ segs[i + 1].start = segs[i].end
    /\ segs[i + 1].start < segs[i + 1].end

\* C2 amended: a non-empty segment owns its start; its end belongs to the next
\* segment only when that one is contiguous, and to no segment when i is last
\* or nothing later starts there
C2_Boundary ==
    (fIdx # NotRun /\ SortedNonOverlapping(fSegs)) =>
        \A i \in 1 .. Len(fSegs) :
            (Timed(fSegs[i]) /\ fSegs[i].start <= fSegs[i].end) =>
                /\ (fT = fSegs[i].start /\ fSegs[i].start < fSegs[i].end) => fIdx = i - 1
                /\ (fT = fSegs[i].end /\ Contiguous(fSegs, i)) => fIdx = i
                /\ (fT = fSegs[i].end
                      /\ \A j \in i + 1 .. Len(fSegs) : ~Contains(fSegs[j], fT)) => fIdx = -1

\* a gap follows segment 0: the lookup at its end finds nothing
C2_Witness ==
    /\ fSegs = <<Seg(0, 1), Seg(NULL, NULL), Seg(2, 3)>>
    /\ fT = 1
    /\ fIdx = -1

\* ------------------------------------------------------------ Learn.svelte

Clip(s, e, u) == [start |-> s, end |-> e, url |-> u]

\* the quizzes getListeningQuiz answers with (ListeningSegment: start < end);
\* the window of the last clip ends past the end of its recording
QuizLists ==
    { <<Clip(0, 1, 1), Clip(1, MaxT + 1, 2)>>,
      <<>> }

\* listeningSegments[currentListeningIndex] is defined
HasSegment == currentListeningIndex < Len(listeningSegments)

CurrentSegment == listeningSegments[currentListeningIndex + 1]

\* the play and next buttons are rendered
QuizShown ==
    /\ mode = "listening"
    /\ ~loading
    /\ ~sessionComplete
    /\ Len(listeningSegments) > 0

\* startSession('listening') up to await getListeningQuiz(10)
StartSessionUpTo(n) ==
    /\ mode = "select" \/ (mode = "listening" /\ ~loading /\ sessionComplete)
    /\ fetching < n
    /\ mode' = "listening"
    /\ loading' = TRUE
    /\ sessionComplete' = FALSE
    /\ currentListeningIndex' = 0
    /\ fetching' = fetching + 1
    /\ lastOp' = <<"startSession", 0>>
    /\ effects' = NoFx
    /\ UNCHANGED <<listeningSegments, listeningAudio, learnIsPlaying, loads, plays>>
    /\ UNCHANGED <<hostVars, playerVars, findVars>>

\* the session of the clip player is started only when no earlier request
\* is still in flight; SpecSession lifts this
StartSession == StartSessionUpTo(1)

\* startSession('listening') after the quiz has arrived
QuizLoaded(q) ==
    /\ fetching > 0
    /\ fetching' = fetching - 1
    /\ listeningSegments' = q
    /\ sessionComplete' = IF Len(q) = 0 THEN TRUE ELSE sessionComplete
    /\ loading' = FALSE
    /\ lastOp' = <<"quizLoaded", Len(q)>>
    /\ effects' = NoFx
    /\ UNCHANGED <<currentListeningIndex, listeningAudio, learnIsPlaying, mode,
                   loads, plays>>
    /\ UNCHANGED <<hostVars, playerVars, findVars>>

\* startSession('listening') when getListeningQuiz fails: catch, finally
QuizFailed ==
    /\ fetching > 0
    /\ fetching' = fetching - 1
    /\ loading' = FALSE
    /\ lastOp' = <<"quizFailed", 0>>
    /\ effects' = NoFx
    /\ UNCHANGED <<listeningSegments, currentListeningIndex, listeningAudio,
                   learnIsPlaying, sessionComplete, mode, loads, plays>>
    /\ UNCHANGED <<hostVars, playerVars, findVars>>

\* backToModeSelect()
BackToModeSelect ==
    /\ mode # "select"
    /\ mode' = "select"
    /\ sessionComplete' = FALSE
    /\ lastOp' = <<"backToModeSelect", 0>>
    /\ effects' = NoFx
    /\ UNCHANGED <<listeningSegments, currentListeningIndex, listeningAudio,
                   learnIsPlaying, loading, fetching, loads, plays>>
    /\ UNCHANGED <<hostVars, playerVars, findVars>>

\* plausible slip: resume continues from the pause position
PlayResume_noSeek(segment) ==
    /\ SetHost(hPlay(Host, listeningAudio))
    /\ effects' = << <<"play", listeningAudio, 0>> >>
    /\ plays' = plays \cup {listeningAudio}
    /\ UNCHANGED <<listeningAudio, learnIsPlaying, loads>>

\* lines 196-207: the handle exists and isPlaying is false
PlayResume(segment) ==
    /\ SetHost(hPlay(hSeek(Host, listeningAudio, segment.start, 0), listeningAudio))
    /\ effects' = << <<"seek", listeningAudio, segment.start>>,
                     <<"play", listeningAudio, 0>> >>
    /\ plays' = plays \cup {listeningAudio}
    /\ UNCHANGED <<listeningAudio, learnIsPlaying, loads>>

\* plausible slip: the toggle restarts the clip instead of pausing it
PlayPause_restart ==
    /\ SetHost(hPlay(hSeek(hPause(Host, listeningAudio), listeningAudio,
                           CurrentSegment.start, 0), listeningAudio))
    /\ effects' = << <<"pause", listeningAudio, 0>>,
                     <<"seek", listeningAudio, CurrentSegment.start>>,
                     <<"play", listeningAudio, 0>> >>
    /\ learnIsPlaying' = FALSE
    /\ UNCHANGED <<listeningAudio, loads, plays>>

\* lines 188-193: the handle exists and isPlaying is true
PlayPause ==
    /\ SetHost(hPause(Host, listeningAudio))
    /\ effects' = << <<"pause", listeningAudio, 0>> >>
    /\ learnIsPlaying' = FALSE
    /\ UNCHANGED <<listeningAudio, loads, plays>>

\* lines 209-242: no handle; create one, register the listeners, load()
PlayCreate(segment) ==
    /\ Len(handles) < MaxClip
    /\ LET H2 == hNew(Host, segment.url, segment)
           h == Len(H2.hs)
       IN  /\ SetHost(H2)
           /\ listeningAudio' = h
           /\ effects' = << <<"new", h, segment.url>> >>
           /\ loads' = loads \cup {[h |-> h, segment |-> segment]}
    /\ UNCHANGED <<learnIsPlaying, plays>>

\* playListeningSegment() up to its first await
PlayListeningSegment ==
    /\ QuizShown
    /\ IF ~HasSegment
       THEN /\ effects' = NoFx
            /\ UNCHANGED <<hostVars, listeningAudio, learnIsPlaying, loads, plays>>
       ELSE IF listeningAudio # NoHandle /\ learnIsPlaying
       THEN PlayPause
       ELSE IF listeningAudio # NoHandle
       THEN PlayResume(CurrentSegment)
       ELSE PlayCreate(CurrentSegment)
    /\ lastOp' = <<"playListeningSegment", currentListeningIndex>>
    /\ UNCHANGED <<listeningSegments, currentListeningIndex, sessionComplete,
                   mode, loading, fetching>>
    /\ UNCHANGED <<playerVars, findVars>>

\* lines 244-251 once the load promise is settled in favour of canplay:
\* seek the handle listeningAudio now refers to and play it; a null
\* listeningAudio throws into the catch, which clears isPlaying
LoadContinue(segment) ==
    IF listeningAudio = NoHandle
    THEN /\ UNCHANGED events
         /\ effects' = << <<"caught", 0, 0>> >>
         /\ learnIsPlaying' = FALSE
         /\ plays' = plays
    ELSE /\ Len(hPlay(hSeek(Host, listeningAudio, segment.start, 0),
                      listeningAudio).ev) <= MaxEvents
         /\ events' = hPlay(hSeek(Host, listeningAudio, segment.start, 0),
                            listeningAudio).ev
         /\ effects' = << <<"seek", listeningAudio, segment.start>>,
                          <<"play", listeningAudio, 0>> >>
         /\ learnIsPlaying' = learnIsPlaying
         /\ plays' = plays

\* the host fires canplay on handle h; the once-listener of line 237 settles
\* the load promise of the invocation that created h, if it still waits
CanPlay(h) ==
    /\ h \in 1 .. Len(handles)
    /\ ~handles[h].ready
    /\ ~handles[h].err
    /\ h = listeningAudio \/ \E c \in loads : c.h = h
    /\ IF \E c \in loads : c.h = h
       THEN LET c == CHOOSE c \in loads : c.h = h
                hs1 == [handles EXCEPT ![h].ready = TRUE]
                H1 == [hs |-> hs1, ev |-> events]
            IN  /\ LoadContinue(c.segment)
                /\ handles' = IF listeningAudio = NoHandle THEN hs1
                              ELSE hPlay(hSeek(H1, listeningAudio, c.segment.start, 0),
                                         listeningAudio).hs
                /\ loads' = loads \ {c}
       ELSE /\ handles' = [handles EXCEPT ![h].ready = TRUE]
            /\ effects' = NoFx
            /\ UNCHANGED <<events, learnIsPlaying, loads, plays>>
    /\ lastOp' = <<"canplay", h>>
    /\ UNCHANGED <<listeningSegments, currentListeningIndex, listeningAudio,
                   sessionComplete, mode, loading, fetching>>
    /\ UNCHANGED <<playerVars, findVars>>

\* a timeout that also gives the handle up
LoadTimeout_teardown(c) ==
    /\ c \in loads
    /\ ~handles[c.h].ready
    /\ loads' = loads \ {c}
    /\ learnIsPlaying' = FALSE
    /\ listeningAudio' = NoHandle
    /\ lastOp' = <<"loadTimeout", c.h>>
    /\ effects' = << <<"caught", c.h, 0>> >>
    /\ UNCHANGED <<listeningSegments, currentListeningIndex,
                   sessionComplete, mode, loading, fetching, plays>>
    /\ UNCHANGED <<hostVars, playerVars, findVars>>

\* the 5 s timer of line 236 rejects the load promise: catch, isPlaying = false
LoadTimeout(c) ==
    /\ c \in loads
    /\ ~handles[c.h].ready
    /\ loads' = loads \ {c}
    /\ learnIsPlaying' = FALSE
    /\ lastOp' = <<"loadTimeout", c.h>>
    /\ effects' = << <<"caught", c.h, 0>> >>
    /\ UNCHANGED <<listeningSegments, currentListeningIndex, listeningAudio,
                   sessionComplete, mode, loading, fetching, plays>>
    /\ UNCHANGED <<hostVars, playerVars, findVars>>

\* line 200: the promise of the play() of a resume is fulfilled once
\* playback of h has started
PlayResolved(h) ==
    /\ h \in plays
    /\ handles[h].ready
    /\ ~handles[h].paused
    /\ plays' = plays \ {h}
    /\ learnIsPlaying' = TRUE
    /\ lastOp' = <<"play.resolved", h>>
    /\ effects' = NoFx
    /\ UNCHANGED <<listeningSegments, currentListeningIndex, listeningAudio,
                   sessionComplete, mode, loading, fetching, loads>>
    /\ UNCHANGED <<hostVars, playerVars, findVars>>

\* nextListeningSegment()
\* a next that forgets the handle without pausing it
NextListeningSegment_noPause ==
    /\ QuizShown
    /\ IF currentListeningIndex >= Len(listeningSegments) - 1
       THEN /\ sessionComplete' = TRUE
            /\ currentListeningIndex' = currentListeningIndex
       ELSE /\ currentListeningIndex' = currentListeningIndex + 1
            /\ sessionComplete' = sessionComplete
    /\ IF listeningAudio # NoHandle
       THEN /\ SetHost(hDrop(Host, listeningAudio))
            /\ effects' = << <<"drop", listeningAudio, 0>> >>
       ELSE /\ UNCHANGED hostVars
            /\ effects' = NoFx
    /\ listeningAudio' = NoHandle
    /\ lastOp' = <<"nextListeningSegment", 0>>
    /\ UNCHANGED <<listeningSegments, learnIsPlaying, mode, loading, fetching,
                   loads, plays>>
    /\ UNCHANGED <<playerVars, findVars>>

NextListeningSegment ==
    /\ QuizShown
    /\ IF currentListeningIndex >= Len(listeningSegments) - 1
       THEN /\ sessionComplete' = TRUE
            /\ currentListeningIndex' = currentListeningIndex
       ELSE /\ currentListeningIndex' = currentListeningIndex + 1
            /\ sessionComplete' = sessionComplete
    /\ IF listeningAudio # NoHandle
       THEN /\ SetHost(hDrop(hPause(Host, listeningAudio), listeningAudio))
            /\ effects' = << <<"pause", listeningAudio, 0>>,
                             <<"drop", listeningAudio, 0>> >>
       ELSE /\ UNCHANGED hostVars
            /\ effects' = NoFx
    /\ listeningAudio' = NoHandle
    /\ lastOp' = <<"nextListeningSegment", 0>>
    /\ UNCHANGED <<listeningSegments, learnIsPlaying, mode, loading, fetching,
                   loads, plays>>
    /\ UNCHANGED <<playerVars, findVars>>

\* handleTimeUpdate() of the listeners registered on handle h, whose closure
\* holds the segment h was created for
handleTimeUpdate(h) ==
    IF listeningAudio # NoHandle /\ handles[listeningAudio].pos >= handles[h].win.end
    THEN /\ SetHost(hPause([hs |-> handles, ev |-> Tail(events)], listeningAudio))
         /\ effects' = << <<"pause", listeningAudio, 0>> >>
         /\ learnIsPlaying' = FALSE
    ELSE /\ events' = Tail(events)
         /\ handles' = handles
         /\ effects' = NoFx
         /\ learnIsPlaying' = learnIsPlaying

\* the listeners of lines 213-232 for the oldest queued media event
ClipListener ==
    /\ events # <<>>
    /\ LET h == Head(events)[1]
           type == Head(events)[2]
       IN  /\ lastOp' = <<type, h>>
           /\ IF type = "timeupdate"
              THEN handleTimeUpdate(h)
              ELSE /\ events' = Tail(events)
                   /\ handles' = handles
                   /\ effects' = NoFx
                   /\ learnIsPlaying' = (type = "play")
           /\ plays' = IF type = "pause" THEN plays \ {h} ELSE plays
    /\ UNCHANGED <<listeningSegments, currentListeningIndex, listeningAudio,
                   sessionComplete, mode, loading, fetching, loads>>
    /\ UNCHANGED <<playerVars, findVars>>

InitLearn ==
    /\ IdleLearn
    /\ IdlePlayer
    /\ IdleFind
    /\ handles = <<>>
    /\ events = <<>>
    /\ lastOp = <<"mount", 0>>
    /\ effects = NoFx

NextLearn ==
    \/ StartSession
    \/ \E q \in QuizLists : QuizLoaded(q)
    \/ QuizFailed
    \/ BackToModeSelect
    \/ PlayListeningSegment
    \/ NextListeningSegment
    \/ \E h \in 1 .. Len(handles) : CanPlay(h)
    \/ \E c \in loads : LoadTimeout(c)
    \/ \E h \in plays : PlayResolved(h)
    \/ ClipListener
    \/ \E h \in 1 .. Len(handles) : Advance(h)
    \/ \E h \in 1 .. Len(handles) : End(h)

SpecLearn == InitLearn /\ [][NextLearn]_vars

\* The listening session alone, with startSession pressed again (after
\* Back to Modes) while earlier getListeningQuiz requests are unanswered;
\* the server may answer two requests with quizzes of different length.
SessionQuizLists == QuizLists \cup { <<Clip(0, 1, 1)>> }

NextSession ==
    \/ StartSessionUpTo(MaxFetch)
    \/ \E q \in SessionQuizLists : QuizLoaded(q)
    \/ QuizFailed
    \/ BackToModeSelect
    \/ PlayListeningSegment
    \/ NextListeningSegment
    \/ \E h \in 1 .. Len(handles) : CanPlay(h)
    \/ ClipListener

SpecSession == InitLearn /\ [][NextSession]_vars

\* ---------------------------------------------- claims on the two players

Issued(op) == \E k \in 1 .. Len(effects) : effects[k][1] = op

\* C3: after a click on segment 0 and then on segment 1 (both timed), once no
\* seekTo is left waiting and every media event is delivered, the handle is at
\* the position the later click asked for, the seek and play in effect are
\* those of the later click and the highlight is on segment 1
C3_RapidClicks ==
    ( /\ Len(requests) = 2
      /\ requests[1].src = 0 /\ requests[1].time # NULL
      /\ requests[2].src = 1 /\ requests[2].time # NULL
      /\ pending = {}
      /\ events = <<>>
      /\ audio # NoHandle
      /\ handles[audio].req # 0
      /\ handles[audio].pos = requests[handles[audio].req].time )
    => /\ handles[audio].req = 2
       /\ activeSegmentIndex = 1

\* C8: once onDestroy has run on a player that had a source, togglePlay, a segment click, a progress click
\* or a seekTo that was waiting issue no play(), assign no currentTime and
\* throw nothing
C8_NoOpAfterTeardown ==
    ( /\ destroyed
      /\ audioUrl # NoUrl
      /\ lastOp[1] \in {"togglePlay", "handleSegmentClick", "handleProgressClick",
                        "seekTo.ready", "seekTo.timeout"} )
    => ~Issued("play") /\ ~Issued("seek") /\ ~Issued("throw")

\* C9: a click on segment i sets activeSegmentIndex to i before anything else
\* the click does, whatever the state of the player
C9_HighlightFirst ==
    lastOp[1] = "handleSegmentClick" =>
        /\ effects # <<>>
        /\ effects[1] = <<"setActive", lastOp[2], 0>>
        /\ \A k \in 2 .. Len(effects) : effects[k][1] # "setActive"
        /\ activeSegmentIndex = lastOp[2]

\* a click on a timed segment of a player whose handle was playing: the
\* highlight, then the seek, then play()
C9_Witness ==
    /\ lastOp[1] = "handleSegmentClick"
    /\ Len(effects) = 3
    /\ effects[2][1] = "seek"
    /\ effects[3][1] = "play"
    /\ isPlaying

C4_ClipStopsAtEnd ==
    ( /\ QuizShown
      /\ listeningAudio # NoHandle
      /\ HasSegment
      /\ handles[listeningAudio].ready
      /\ handles[listeningAudio].pos >= CurrentSegment.end )
    => /\ lastOp = <<"timeupdate", listeningAudio>>
          => (handles[listeningAudio].paused /\ ~learnIsPlaying)
       /\ events = <<>> => handles[listeningAudio].paused
       /\ CurrentSegment.start <= handles[listeningAudio].pos
       /\ handles[listeningAudio].pos <= CurrentSegment.end + 1

\* C5: a play request that finds the handle present and isPlaying false
\* assigns currentTime = start of the current window and then calls play();
\* no play() of the clip player goes without the assignment right before it
C5_ResumeSeeksToStart ==
    [][ /\ ( /\ lastOp'[1] = "playListeningSegment"
             /\ HasSegment
             /\ listeningAudio # NoHandle
             /\ ~learnIsPlaying )
           => /\ effects' = << <<"seek", listeningAudio, CurrentSegment.start>>,
                               <<"play", listeningAudio, 0>> >>
              /\ handles'[listeningAudio].pos = CurrentSegment.start
              /\ ~handles'[listeningAudio].paused
        /\ \A k \in 1 .. Len(effects') :
              effects'[k][1] = "play" => (k > 1 /\ effects'[k - 1][1] = "seek")
      ]_vars

\* a resume of a clip that had been loaded and was left paused
C5_Witness ==
    /\ lastOp[1] = "playListeningSegment"
    /\ Len(effects) = 2
    /\ effects[1][1] = "seek"
    /\ listeningAudio # NoHandle
    /\ handles[listeningAudio].ready
    /\ plays # {}

\* C6: a play request that finds the handle present and isPlaying true calls
\* pause() and nothing else: isPlaying becomes false, the position is kept, no
\* play() is issued and no handle is created
C6_ToggleOnlyPauses ==
    [][ ( /\ lastOp'[1] = "playListeningSegment"
          /\ HasSegment
          /\ listeningAudio # NoHandle
          /\ learnIsPlaying )
        => /\ effects' = << <<"pause", listeningAudio, 0>> >>
           /\ ~learnIsPlaying'
           /\ listeningAudio' = listeningAudio
           /\ Len(handles') = Len(handles)
           /\ handles'[listeningAudio] = [handles[listeningAudio] EXCEPT !.paused = TRUE]
      ]_vars

\* the toggle has just paused a clip that was playing inside its window
C6_Witness ==
    /\ lastOp[1] = "playListeningSegment"
    /\ effects = << <<"pause", listeningAudio, 0>> >>
    /\ handles[listeningAudio].ready
    /\ handles[listeningAudio].pos > 0
    /\ Len(events) > 0
    /\ events[Len(events)] = <<listeningAudio, "pause">>

ListenerOps == {"play", "pause", "timeupdate", "ended", "canplay"}

C11_DuplicateSuppression ==
    [][ (lastOp'[1] = "timeupdate" /\ audio # NoHandle)
        => /\ (\E k \in 1 .. Len(effects') : effects'[k][1] \in {"setActive", "scroll"})
              => activeSegmentIndex' # activeSegmentIndex
           /\ activeSegmentIndex' # activeSegmentIndex
              => effects'[1] = <<"setActive", activeSegmentIndex', 0>>
           /\ \A k \in 1 .. Len(effects') :
                 effects'[k][1] = "scroll" => effects'[k][2] = activeSegmentIndex'
      ]_vars

\* a position update that found the handle inside the segment already active
C11_Witness ==
    /\ lastOp[1] = "timeupdate"
    /\ audio # NoHandle
    /\ activeSegmentIndex >= 0
    /\ findActive(segments, handles[audio].pos) = activeSegmentIndex
    /\ effects = NoFx

\* C12: when the ended listener of the transcript player has run,
\* activeSegmentIndex is -1 and isPlaying is false, whatever they were before
C12_EndedClearsPointer ==
    lastOp[1] = "ended" => (activeSegmentIndex = -1 /\ ~isPlaying)

\* ended is delivered after a click that came once the media had run out: the
\* click had set the pointer and restarted the handle
C12_Witness ==
    /\ lastOp[1] = "ended"
    /\ audio # NoHandle
    /\ ~handles[audio].paused
    /\ Len(requests) > 0
    /\ events # <<>>
    /\ Head(events) = <<audio, "play">>

\* C13: once onDestroy has run, or the audioUrl prop has changed,
\* activeSegmentIndex is -1
C13_TeardownResetsPointer ==
    lastOp[1] \in {"onDestroy", "audioUrl"} => activeSegmentIndex = -1

\* C14: the lookup never yields the index of a segment whose start or end is
\* null, for any list and any position
C14_LookupSkipsUntimed ==
    fIdx >= 0 => (fSegs[fIdx + 1].start # NULL /\ fSegs[fIdx + 1].end # NULL)

\* the lookup passed over a segment without a start that precedes the match
C14_Witness ==
    /\ fSegs = <<Seg(NULL, 1), Seg(0, 1)>>
    /\ fT = 0
    /\ fIdx = 1

\* C14, in the player: an untimed segment is the active one only after a click
\* on it
C14_UntimedOnlyByClick ==
    ( /\ activeSegmentIndex >= 0
      /\ \/ segments[activeSegmentIndex + 1].start = NULL
         \/ segments[activeSegmentIndex + 1].end = NULL )
    => \E k \in 1 .. Len(requests) : requests[k].src = activeSegmentIndex

\* C15: a seekTo that leaves its readiness wait (ready or timed out) after a
\* newer request has been issued assigns no currentTime and calls no play()
C15_LastRequestWins ==
    ( /\ lastOp[1] \in {"seekTo.ready", "seekTo.timeout"}
      /\ lastOp[2] < Len(requests) )
    => ~Issued("seek") /\ ~Issued("play")

\* C16: a seekTo whose readiness wait ran into the 3 s timer gives up: it
\* assigns no currentTime and calls no play()
C16_TimeoutAbandons ==
    lastOp[1] = "seekTo.timeout" => ~Issued("seek") /\ ~Issued("play")

\* C17: no handler assigns currentTime or calls play() on a handle that has
\* not reached metadata-ready
C17_NoSeekWhileLoading ==
    \A k \in 1 .. Len(effects) :
        effects[k][1] \in {"seek", "play"} => handles[effects[k][2]].ready

\* C18: every seek of the clip handle goes to the start of the current
\* question, an automatic pause uses the end of the current question, and a
\* load continuation or position handler created with handle h acts on no
\* handle but h
C18_WindowOfCurrentQuestion ==
    /\ \A k \in 1 .. Len(effects) :
          effects[k][1] = "seek"
          => (HasSegment /\ effects[k][3] = CurrentSegment.start)
    /\ (lastOp[1] = "timeupdate" /\ Issued("pause"))
       => (HasSegment /\ handles[lastOp[2]].win = CurrentSegment)
    /\ lastOp[1] \in {"canplay", "timeupdate"}
       => \A k \in 1 .. Len(effects) :
             effects[k][1] \in {"seek", "play", "pause"} => effects[k][2] = lastOp[2]

MediaEvents == {"play", "pause", "timeupdate", "ended", "loadedmetadata", "error"}

\* C19: a media event delivered for a handle the player has given up changes
\* none of currentTime, duration, isPlaying and activeSegmentIndex, touches
\* no other handle and throws nothing
C19_TeardownSilencesListeners ==
    [][ (lastOp'[1] \in MediaEvents /\ lastOp'[2] # audio)
        => /\ UNCHANGED <<currentTime, duration, isPlaying, activeSegmentIndex>>
           /\ \A k \in 1 .. Len(effects') : effects'[k][1] # "throw"
           /\ \A h \in 1 .. Len(handles) :
                 h # lastOp'[2] => handles'[h] = handles[h]
      ]_vars

\* C20: once the error event of a handle has been delivered, togglePlay, seekTo and the
\* segment clicks call no play() and assign no currentTime on it
C20_ErrorIsTerminal ==
    \A k \in 1 .. Len(effects) :
        ( /\ effects[k][1] \in {"seek", "play"}
          /\ \A j \in 1 .. Len(events) : events[j] # <<effects[k][2], "error">> )
        => ~handles[effects[k][2]].err

\* C21: no play() promise that the host rejects with AbortError is left
\* unhandled or reported as a failure, on any call path of the transcript
\* player
C21_AbortSwallowed ==
    \A k \in 1 .. Len(effects) : effects[k][1] \notin {"unhandled", "reported"}

C24_PointerOwners ==
    [][ activeSegmentIndex' # activeSegmentIndex
        => lastOp'[1] \in {"timeupdate", "handleSegmentClick", "ended"} ]_vars

\* a progress-bar seek moved the handle out of the highlighted segment and
\* the pointer stayed
C24_Witness ==
    /\ lastOp[1] = "handleProgressClick"
    /\ audio # NoHandle
    /\ activeSegmentIndex >= 0
    /\ \E k \in 1 .. Len(effects) : effects[k][1] = "seek"
    /\ findActive(segments, handles[audio].pos) # activeSegmentIndex

\* C25: once every queued media event and every pending continuation of the
\* quiz clip player has been processed, isPlaying is true exactly when the
\* referenced clip handle is playing
C25_FlagMatchesHandle ==
    (events = <<>> /\ loads = {} /\ plays = {})
        => (learnIsPlaying <=>
                (listeningAudio # NoHandle /\ ~handles[listeningAudio].paused))

\* C26: with a non-empty segment list and a handle referenced, when a
\* position update has been processed currentTime is the position that
\* handle has at that moment, not one fixed when the update was queued, and
\* activeSegmentIndex is the lookup result for it
C26_UpdateReadsHandle ==
    [][ (lastOp'[1] = "timeupdate" /\ segments # <<>> /\ audio # NoHandle)
        => /\ currentTime' = handles[audio].pos
           /\ activeSegmentIndex' = findActive(segments, currentTime')
      ]_vars

\* an update processed after a seek reports the position that seek asked for
C26_Witness ==
    /\ lastOp[1] = "timeupdate"
    /\ segments # <<>>
    /\ audio # NoHandle
    /\ handles[audio].req > 0
    /\ requests[handles[audio].req].time = 1
    /\ currentTime = 1
    /\ activeSegmentIndex = findActive(segments, 1)

\* the segment whose click issued the seek last applied to the handle the
\* player references, 0-based; -1 if there is none or it was a progress seek
LatestClicked ==
    IF audio = NoHandle \/ handles[audio].req = 0 THEN -1
    ELSE requests[handles[audio].req].src

\* C27: when the seek last applied to the handle came from a click on a
\* segment i with start < end, both present, the position update that finds
\* the handle at start(i) leaves activeSegmentIndex = i
C27_HighlightConfirmed ==
    [][ (/\ lastOp'[1] = "timeupdate"
         /\ LatestClicked >= 0
         /\ LatestClicked < Len(segments)
         /\ Timed(segments[LatestClicked + 1])
         /\ segments[LatestClicked + 1].start < segments[LatestClicked + 1].end
         /\ handles[audio].pos = segments[LatestClicked + 1].start)
        => activeSegmentIndex' = LatestClicked
      ]_vars

\* the update after a click on the second segment found the handle at its
\* start and kept the highlight
C27_Witness ==
    /\ lastOp[1] = "timeupdate"
    /\ LatestClicked = 1
    /\ Timed(segments[2])
    /\ handles[audio].pos = segments[2].start
    /\ currentTime = segments[2].start
    /\ activeSegmentIndex = 1
    /\ effects = NoFx

\* C28: the quiz clip player creates a handle only while listeningAudio is
\* null and sets listeningAudio to null only right after pause() on the
\* handle it held; the reference never passes from one handle to another
\* directly, and every dropped handle is paused
C28_ClipHandleLifecycle ==
    [][ /\ \A k \in 1 .. Len(effects') :
              effects'[k][1] = "new"
                  => (listeningAudio = NoHandle /\ listeningAudio' = effects'[k][2])
        /\ (listeningAudio # NoHandle /\ listeningAudio' = NoHandle)
              => /\ effects' = << <<"pause", listeningAudio, 0>>,
                                  <<"drop", listeningAudio, 0>> >>
                 /\ handles'[listeningAudio].paused
        /\ \A k \in 1 .. Len(effects') :
              effects'[k][1] = "drop"
                  => (k > 1 /\ effects'[k - 1] = <<"pause", effects'[k][2], 0>>)
        /\ listeningAudio' # listeningAudio
              => (listeningAudio = NoHandle \/ listeningAudio' = NoHandle)
      ]_vars

\* next was pressed while a clip was playing: its handle was paused and is
\* no longer referenced
C28_Witness ==
    /\ lastOp[1] = "nextListeningSegment"
    /\ listeningAudio = NoHandle
    /\ Len(effects) = 2
    /\ effects[2][1] = "drop"
    /\ handles[effects[2][2]].paused
    /\ \E k \in 1 .. Len(events) : events[k] = <<effects[2][2], "pause">>

\* C29: when the 5 s timer of a clip load fires before canplay, the
\* invocation ends with isPlaying false, assigns no currentTime, calls no
\* play() and leaves the handle and the reference to it as they were; a
\* click that follows while that handle is referenced seeks it to the start
\* of the question and plays it
C29_TimeoutKeepsHandle ==
    [][ /\ lastOp'[1] = "loadTimeout"
           => /\ ~learnIsPlaying'
              /\ \A k \in 1 .. Len(effects') : effects'[k][1] \notin {"seek", "play"}
              /\ listeningAudio' = listeningAudio
              /\ handles' = handles
              /\ events' = events
        /\ ( /\ lastOp = <<"loadTimeout", listeningAudio>>
             /\ lastOp'[1] = "playListeningSegment"
             /\ HasSegment )
           => /\ listeningAudio' = listeningAudio
              /\ effects' = << <<"seek", listeningAudio, CurrentSegment.start>>,
                               <<"play", listeningAudio, 0>> >>
      ]_vars

\* a click resumed a referenced handle that never reported canplay and whose
\* load is no longer awaited
C29_Witness ==
    /\ lastOp[1] = "playListeningSegment"
    /\ listeningAudio # NoHandle
    /\ ~handles[listeningAudio].ready
    /\ \A c \in loads : c.h # listeningAudio
    /\ Len(effects) = 2
    /\ effects[1] = <<"seek", listeningAudio, CurrentSegment.start>>
    /\ effects[2] = <<"play", listeningAudio, 0>>

\* C30: in every state of a listening session
\* 0 <= currentListeningIndex <= max(0, listeningSegments.length - 1)
C30_IndexInRange ==
    mode = "listening"
        => /\ 0 <= currentListeningIndex
           /\ currentListeningIndex <=
                  (IF Len(listeningSegments) = 0 THEN 0 ELSE Len(listeningSegments) - 1)

====
